---- MODULE Spec2Model ----
(***************************************************************************)
(* State-machine model of src/src/App.tsx: the chat client's streaming     *)
(* conversation engine (sendMessage), its credential validation handler    *)
(* and its model selection.  JavaScript strings are TLA+ strings; every    *)
(* await of the source is a boundary between two actions.                  *)
(***************************************************************************)
EXTENDS Integers, Sequences, FiniteSets, TLC

(***************************************************************************)
(* Bounds of the model.                                                    *)
(***************************************************************************)
\* number of calendar days the clock may advance
MaxDay == 1
\* number of completion requests issued in one behaviour
MaxSends == 2
\* number of records in one streamed response body
MaxRecords == 2
\* number of entries in one models-listing response
MaxModels == 2

(***************************************************************************)
(* String helpers (String.prototype.indexOf / split / includes, and the    *)
(* white space JSON.parse accepts around a value).                         *)
(***************************************************************************)
MatchAt(s, sub, i) ==
    /\ i >= 1
    /\ i + Len(sub) - 1 <= Len(s)
    /\ SubSeq(s, i, i + Len(sub) - 1) = sub

\* 1-based index of the first occurrence of sub in s, 0 when there is none
IndexOf(s, sub) ==
    LET hits == {i \in 1..(Len(s) - Len(sub) + 1) : SubSeq(s, i, i + Len(sub) - 1) = sub}
    IN  IF hits = {} THEN 0 ELSE CHOOSE i \in hits : \A j \in hits : i <= j

Includes(s, sub) == Len(sub) = 0 \/ IndexOf(s, sub) # 0

RECURSIVE Split(_, _)
Split(s, sep) ==
    LET i == IndexOf(s, sep)
    IN  IF i = 0
        THEN <<s>>
        ELSE <<SubSeq(s, 1, i - 1)>> \o Split(SubSeq(s, i + Len(sep), Len(s)), sep)

JsonSpace == {" ", "\n", "\t", "\r"}

RECURSIVE JsonTrim(_)
JsonTrim(s) ==
    IF Len(s) = 0 THEN s
    ELSE IF SubSeq(s, 1, 1) \in JsonSpace THEN JsonTrim(SubSeq(s, 2, Len(s)))
    ELSE IF SubSeq(s, Len(s), Len(s)) \in JsonSpace THEN JsonTrim(SubSeq(s, 1, Len(s) - 1))
    ELSE s

RECURSIVE Concat(_)
Concat(ss) == IF ss = <<>> THEN "" ELSE Head(ss) \o Concat(Tail(ss))

(***************************************************************************)
(* Messages and the system preamble.                                       *)
(***************************************************************************)
Msg(r, c) == [role |-> r, content |-> c]

\* the date part of new Date().toISOString(), as the index of the day
getSystemMessage(day) == Msg("system", "Current date: " \o ToString(day))

(***************************************************************************)
(* The completion endpoint's streamed body.  A record is                   *)
(* [kind, text]: a content delta, a record whose delta carries no content  *)
(* (the role and finish records), or the terminal sentinel.  The payload   *)
(* object is written with its nesting choices[0].delta elided:             *)
(* {"content":"Hi"} stands for {"choices":[{"delta":{"content":"Hi"}}]}.   *)
(***************************************************************************)
Delimiter == "data: "
ContentOpen == "{\"content\":\""
ContentClose == "\"}"
AbsentPayload == "{}"
DonePayload == "[DONE]"

DeltaTexts == {"Hi", "!", ""}

Records ==
    {[kind |-> "delta", text |-> t] : t \in DeltaTexts}
        \cup {[kind |-> "absent", text |-> ""], [kind |-> "done", text |-> ""]}

Payload(rec) ==
    CASE rec.kind = "delta" -> ContentOpen \o rec.text \o ContentClose
      [] rec.kind = "absent" -> AbsentPayload
      [] rec.kind = "done" -> DonePayload

RECURSIVE Wire(_)
Wire(recs) ==
    IF recs = <<>> THEN ""
    ELSE Delimiter \o Payload(Head(recs)) \o "\n\n" \o Wire(Tail(recs))

SeqsUpTo(S, n) == UNION {[1..k -> S] : k \in 0..n}

\* the bodies a streamed response may carry
Streams == SeqsUpTo(Records, MaxRecords)

\* the deltas d1..dn a body carries, in order
RECURSIVE Deltas(_)
Deltas(recs) ==
    IF recs = <<>> THEN <<>>
    ELSE (IF Head(recs).kind = "delta" THEN <<Head(recs).text>> ELSE <<>>)
             \o Deltas(Tail(recs))

NonEmpty(ss) == SelectSeq(ss, LAMBDA x : x # "")

(***************************************************************************)
(* parseJson and the delta extraction of the stream loop.                  *)
(***************************************************************************)
JsonUndefined == [kind |-> "undefined", hasContent |-> FALSE, content |-> ""]

IsStringLiteral(t) ==
    /\ Len(t) >= 2
    /\ SubSeq(t, 1, 1) = "\""
    /\ SubSeq(t, Len(t), Len(t)) = "\""
    /\ ~Includes(SubSeq(t, 2, Len(t) - 1), "\"")

\* JSON.parse inside try/catch: undefined when the text is no JSON value
parseJson(str) ==
    LET t == JsonTrim(str)
        n == Len(t)
        inner == SubSeq(t, Len(ContentOpen) + 1, n - Len(ContentClose))
    IN  IF /\ n >= Len(ContentOpen) + Len(ContentClose)
           /\ MatchAt(t, ContentOpen, 1)
           /\ MatchAt(t, ContentClose, n - Len(ContentClose) + 1)
           /\ ~Includes(inner, "\"")
        THEN [kind |-> "object", hasContent |-> TRUE, content |-> inner]
        ELSE IF t = AbsentPayload
        THEN [kind |-> "object", hasContent |-> FALSE, content |-> ""]
        ELSE IF IsStringLiteral(t)
        THEN [kind |-> "string", hasContent |-> FALSE, content |-> ""]
        ELSE JsonUndefined

\* parseJson(data)?.choices?.[0]?.delta?.content, "" standing for a falsy value
DeltaOf(data) ==
    LET v == parseJson(data)
    IN  IF v.kind = "object" /\ v.hasContent THEN v.content ELSE ""

\* variant: the loop ends at the first piece parseJson rejects
RECURSIVE ApplyPiecesStopAtBad(_, _, _)
ApplyPiecesStopAtBad(pieces, content, pubs) ==
    IF pieces = <<>> \/ parseJson(Head(pieces)).kind = "undefined"
    THEN [content |-> content, pubs |-> pubs]
    ELSE LET delta == DeltaOf(Head(pieces))
         IN  IF delta # ""
             THEN ApplyPiecesStopAtBad(Tail(pieces), content \o delta,
                                       Append(pubs, content \o delta))
             ELSE ApplyPiecesStopAtBad(Tail(pieces), content, pubs)

\* variant: the delta replaces the content in place of being appended to it
RECURSIVE ApplyPiecesReplace(_, _, _)
ApplyPiecesReplace(pieces, content, pubs) ==
    IF pieces = <<>> THEN [content |-> content, pubs |-> pubs]
    ELSE LET delta == DeltaOf(Head(pieces))
         IN  IF delta # ""
             THEN ApplyPiecesReplace(Tail(pieces), delta, Append(pubs, delta))
             ELSE ApplyPiecesReplace(Tail(pieces), content, pubs)

\* the for loop over value.split('data: '): the content after the pieces and
\* the contents published on the way, one per truthy delta
RECURSIVE ApplyPieces(_, _, _)
ApplyPieces(pieces, content, pubs) ==
    IF pieces = <<>> THEN [content |-> content, pubs |-> pubs]
    ELSE LET delta == DeltaOf(Head(pieces))
         IN  IF delta # ""
             THEN ApplyPieces(Tail(pieces), content \o delta,
                              Append(pubs, content \o delta))
             ELSE ApplyPieces(Tail(pieces), content, pubs)

(***************************************************************************)
(* State.                                                                  *)
(***************************************************************************)
VARIABLES
    \* component state (useState)
    apiKey, apiKeyTemp, apiKeyLoading, showApiKeyModal,
    model, modelTemp, possibleModels, showModelModal,
    inputText, messages, isLoading,
    \* the clock read by getSystemMessage
    today,
    \* the sendMessage invocation in progress: the await it is suspended at
    \* ("none" when there is none) and its locals
    pc, inputMessages, responseMessage, status, error, rest,
    \* the confirm handler of the API key dialog in progress, and the key its
    \* closure holds; how the last such invocation ended
    vpc, vKey, vEnd,
    \* observations: the last outbound completion request, the number of
    \* requests issued and outstanding, the transcript before the last send,
    \* how the last sendMessage invocation ended, the records of the body
    \* being streamed, the assistant contents published while streaming, the
    \* last alert shown, the keys the models endpoint has accepted, and
    \* whether the last step of the engine was a sendMessage call that returned
    \* at its guard, and whether the draft key was edited while the last
    \* validation request was outstanding
    request, nSends, inflight, preSend, lastEnd, stream, publications,
    alertMsg, accepted, sendIgnored, draftEdited

credVars == <<apiKey, apiKeyTemp, apiKeyLoading, showApiKeyModal, model, modelTemp,
              possibleModels, showModelModal, vpc, vKey, vEnd, accepted,
              draftEdited>>

chatVars == <<inputText, messages, isLoading, today, pc, inputMessages,
              responseMessage, status, error, rest, request, nSends, inflight, preSend,
              lastEnd, stream, publications, sendIgnored>>

vars == <<credVars, chatVars, alertMsg>>

InputTexts == {"", "hello"}

NoRequest == [model |-> "", messages |-> <<>>, stream |-> FALSE, key |-> ""]

\* the response statuses of the completion endpoint (fetch follows redirects)
Statuses == {200, 201, 400, 429}

\* the bodies of a response that is not a 200: one no error object can be
\* read from (json FALSE: text that is no JSON, where response.json() rejects,
\* or JSON without an error member, where error.code throws), or an object
\* with an error member (code is "" when the member has none)
ErrorBodies ==
    {[json |-> FALSE, code |-> "", message |-> ""],
     [json |-> TRUE, code |-> "context_length_exceeded", message |-> "too long"],
     [json |-> TRUE, code |-> "", message |-> "server error"]}

\* the local error before the failure branch has bound it
NoError == [json |-> FALSE, code |-> "", message |-> ""]

AlertContextLength == "ContextLengthExceeded"
AlertRateLimited == "RateLimited"
AlertApiKey == "CheckApiKey"

(***************************************************************************)
(* sendMessage.                                                            *)
(***************************************************************************)
\* variant: the guard missing
SendBlockedNever == FALSE

\* the guard of sendMessage: if (isLoading) return
SendBlocked == isLoading

\* variant: the whole transcript is kept, its system message included
BuildInputMessagesKeepAll(msgs, text, day) ==
    <<getSystemMessage(day)>> \o msgs \o <<Msg("user", text)>>

\* variant: the transcript's own system message is sent again
BuildInputMessagesReuse(msgs, text, day) ==
    msgs \o <<Msg("user", text)>>

\* the request list built from the transcript and the input text
BuildInputMessages(msgs, text, day) ==
    <<getSystemMessage(day)>> \o SubSeq(msgs, 2, Len(msgs)) \o <<Msg("user", text)>>

\* the transcript set on a response that is not a 200
RollBack(msgs) == SubSeq(msgs, 1, Len(msgs) - 1)

\* variant: the status is examined before the error code
ClassifyStatusFirst(st, body) ==
    IF st = 429 THEN AlertRateLimited
    ELSE IF body.code = "context_length_exceeded" THEN AlertContextLength
    ELSE body.message

\* the alert chosen for a response that is not a 200
Classify(st, body) ==
    IF body.code = "context_length_exceeded" THEN AlertContextLength
    ELSE IF st = 429 THEN AlertRateLimited
    ELSE body.message

\* a call of sendMessage, up to its first await
SendMessage ==
    /\ IF SendBlocked
       THEN /\ sendIgnored' = TRUE
            /\ UNCHANGED <<inputText, messages, isLoading, pc, inputMessages,
                           responseMessage, status, rest, request, nSends,
                           inflight, preSend, lastEnd, stream, publications>>
       ELSE /\ nSends < MaxSends
            /\ LET im == BuildInputMessages(messages, inputText, today)
               IN  /\ inputMessages' = im
                   /\ messages' = im
                   /\ request' = [model |-> model, messages |-> im,
                                  stream |-> TRUE, key |-> apiKey]
            /\ inputText' = ""
            /\ isLoading' = TRUE
            /\ pc' = "fetch"
            /\ nSends' = nSends + 1
            /\ inflight' = inflight + 1
            /\ preSend' = messages
            /\ lastEnd' = "none"
            /\ stream' = <<>>
            /\ publications' = <<>>
            /\ sendIgnored' = FALSE
            /\ UNCHANGED <<responseMessage, status, rest>>
    /\ UNCHANGED <<credVars, error, today, alertMsg>>

\* the invocation ends by an exception: nothing after the throw runs
Throw(how) ==
    /\ pc' = "none"
    /\ lastEnd' = how
    /\ inflight' = inflight - 1
    /\ sendIgnored' = FALSE

\* await fetch(...) rejects
FetchReject ==
    /\ pc = "fetch"
    /\ Throw("fetchRejected")
    /\ UNCHANGED <<credVars, error, inputText, messages, isLoading, today, inputMessages,
                   responseMessage, status, rest, request, nSends, preSend,
                   stream, publications, alertMsg>>

\* await fetch(...) resolves with a status other than 200
RespondError(st) ==
    /\ pc = "fetch"
    /\ st # 200
    /\ status' = st
    /\ pc' = "json"
    /\ sendIgnored' = FALSE
    /\ UNCHANGED <<credVars, error, inputText, messages, isLoading, today, inputMessages,
                   responseMessage, rest, request, nSends, inflight, preSend,
                   lastEnd, stream, publications, alertMsg>>

\* await response.json() settles, and the rest of the failure branch
ErrorBody(body) ==
    /\ pc = "json"
    /\ IF ~body.json
       THEN /\ Throw("jsonRejected")
            /\ UNCHANGED <<messages, isLoading, alertMsg, error>>
       ELSE /\ error' = body
            /\ alertMsg' = Classify(status, body)
            /\ messages' = RollBack(inputMessages)
            /\ isLoading' = FALSE
            /\ pc' = "none"
            /\ lastEnd' = "rejected"
            /\ inflight' = inflight - 1
            /\ sendIgnored' = FALSE
    /\ UNCHANGED <<credVars, inputText, today, inputMessages, responseMessage,
                   status, rest, request, nSends, preSend, stream, publications>>

\* await fetch(...) resolves with status 200 and no body
RespondNoBody ==
    /\ pc = "fetch"
    /\ status' = 200
    /\ Throw("noBody")
    /\ UNCHANGED <<credVars, error, inputText, messages, isLoading, today, inputMessages,
                   responseMessage, rest, request, nSends, preSend, stream,
                   publications, alertMsg>>

\* await fetch(...) resolves with status 200 and a body: the empty assistant
\* message is appended and the first read is awaited
RespondOk(S) ==
    /\ pc = "fetch"
    /\ \E recs \in S :
          /\ stream' = recs
          /\ rest' = Wire(recs)
    /\ status' = 200
    /\ responseMessage' = Msg("assistant", "")
    /\ messages' = Append(inputMessages, Msg("assistant", ""))
    /\ pc' = "read"
    /\ sendIgnored' = FALSE
    /\ UNCHANGED <<credVars, error, inputText, isLoading, today, inputMessages, request,
                   nSends, inflight, preSend, lastEnd, publications, alertMsg>>

\* await reader.read() resolves with the next n characters of the body, and
\* the for loop over its pieces
ReadChunk(n) ==
    /\ pc = "read"
    /\ n \in 1..Len(rest)
    /\ \E r \in {ApplyPieces(Split(SubSeq(rest, 1, n), Delimiter),
                            responseMessage.content, publications)} :
          /\ responseMessage' = Msg("assistant", r.content)
          /\ publications' = r.pubs
          /\ messages' = IF r.pubs # publications
                         THEN Append(inputMessages, Msg("assistant", r.content))
                         ELSE messages
    /\ rest' = SubSeq(rest, n + 1, Len(rest))
    /\ sendIgnored' = FALSE
    /\ UNCHANGED <<credVars, error, inputText, isLoading, today, pc, inputMessages, status,
                   request, nSends, inflight, preSend, lastEnd, stream, alertMsg>>

\* await reader.read() resolves with done
ReadDone ==
    /\ pc = "read"
    /\ rest = ""
    /\ isLoading' = FALSE
    /\ pc' = "none"
    /\ lastEnd' = "completed"
    /\ inflight' = inflight - 1
    /\ sendIgnored' = FALSE
    /\ UNCHANGED <<credVars, error, inputText, messages, today, inputMessages,
                   responseMessage, status, rest, request, nSends, preSend,
                   stream, publications, alertMsg>>

\* variant: a rejected read restores the list sent with the request
ReadRejectRollsBack ==
    /\ pc = "read"
    /\ Throw("readRejected")
    /\ messages' = inputMessages
    /\ UNCHANGED <<credVars, error, inputText, isLoading, today, inputMessages,
                   responseMessage, status, rest, request, nSends, preSend,
                   stream, publications, alertMsg>>

\* await reader.read() rejects
ReadReject ==
    /\ pc = "read"
    /\ Throw("readRejected")
    /\ UNCHANGED <<credVars, error, inputText, messages, isLoading, today, inputMessages,
                   responseMessage, status, rest, request, nSends, preSend,
                   stream, publications, alertMsg>>

\* onChange of the textarea
TypeInput(t) ==
    /\ inputText # t
    /\ inputText' = t
    /\ sendIgnored' = FALSE
    /\ UNCHANGED <<credVars, error, messages, isLoading, today, pc, inputMessages,
                   responseMessage, status, rest, request, nSends, inflight,
                   preSend, lastEnd, stream, publications, alertMsg>>

\* midnight UTC passes
Tick ==
    /\ today < MaxDay
    /\ today' = today + 1
    /\ sendIgnored' = FALSE
    /\ UNCHANGED <<credVars, error, inputText, messages, isLoading, pc, inputMessages,
                   responseMessage, status, rest, request, nSends, inflight,
                   preSend, lastEnd, stream, publications, alertMsg>>

(***************************************************************************)
(* The API key dialog and the model dialog.                                *)
(***************************************************************************)
Keys == {"sk-good", "sk-old", "sk-bad"}

\* the keys the models endpoint answers with a success status
GoodKeys == {"sk-good", "sk-old"}

ModelIds == {"gpt-4", "gpt-4-32k", "gpt-3.5-turbo", "text-davinci-003"}

\* the data arrays of a models-listing response: ids in any order, no id twice
ModelLists ==
    {l \in SeqsUpTo(ModelIds, MaxModels) :
        \A i, j \in 1..Len(l) : i # j => l[i] # l[j]}

\* data.filter((model) => model.id.includes('gpt-')).map((model) => model.id)
FilterModels(data) == SelectSeq(data, LAMBDA id : Includes(id, "gpt-"))

\* variant: at(0) in place of at(-1)
DefaultModelFirst(list) ==
    IF \E i \in 1..Len(list) : list[i] = "gpt-3.5-turbo" THEN "gpt-3.5-turbo"
    ELSE IF Len(list) > 0 THEN list[1]
    ELSE ""

\* possibleModels.find((model) => model === 'gpt-3.5-turbo')
\*     ?? possibleModels.at(-1) ?? ''
DefaultModel(list) ==
    IF \E i \in 1..Len(list) : list[i] = "gpt-3.5-turbo" THEN "gpt-3.5-turbo"
    ELSE IF Len(list) > 0 THEN list[Len(list)]
    ELSE ""

\* variant: the draft as it is when the response arrives
PromotedKeyLive == apiKeyTemp

\* the key promoted by setApiKey(apiKeyTemp): the handler's closure value
PromotedKey == vKey

\* onChange of the key input
EditApiKeyTemp(k) ==
    /\ showApiKeyModal
    /\ apiKeyTemp # k
    /\ apiKeyTemp' = k
    /\ draftEdited' = (draftEdited \/ vpc # "none")
    /\ UNCHANGED <<apiKey, apiKeyLoading, showApiKeyModal, model, modelTemp,
                   possibleModels, showModelModal, vpc, vKey, vEnd, accepted,
                   chatVars, alertMsg>>

\* onClick of the key dialog's confirm button, up to its first await
ConfirmApiKey ==
    /\ showApiKeyModal
    /\ ~apiKeyLoading
    /\ apiKeyTemp # ""
    /\ apiKeyLoading' = TRUE
    /\ vpc' = "fetch"
    /\ vKey' = apiKeyTemp
    /\ vEnd' = "none"
    /\ draftEdited' = FALSE
    /\ UNCHANGED <<apiKey, apiKeyTemp, showApiKeyModal, model, modelTemp,
                   possibleModels, showModelModal, accepted, chatVars, alertMsg>>

\* variant: the key is promoted before the response is examined
ValidationFailedPromotes ==
    /\ alertMsg' = AlertApiKey
    /\ apiKeyLoading' = FALSE
    /\ vpc' = "none"
    /\ vKey' = ""
    /\ vEnd' = "failed"
    /\ apiKey' = vKey
    /\ UNCHANGED <<apiKeyTemp, showApiKeyModal, model, modelTemp,
                   possibleModels, showModelModal>>

\* catch { alert(...) } finally { setApiKeyLoading(false) }
ValidationFailed ==
    /\ alertMsg' = AlertApiKey
    /\ apiKeyLoading' = FALSE
    /\ vpc' = "none"
    /\ vKey' = ""
    /\ vEnd' = "failed"
    /\ UNCHANGED <<apiKey, apiKeyTemp, showApiKeyModal, model, modelTemp,
                   possibleModels, showModelModal>>

\* await fetch(models) rejects
ValidateReject ==
    /\ vpc = "fetch"
    /\ ValidationFailed
    /\ UNCHANGED <<accepted, draftEdited, chatVars>>

\* await fetch(models) resolves; the endpoint accepts only good keys
ValidateRespond(ok) ==
    /\ vpc = "fetch"
    /\ ok => vKey \in GoodKeys
    /\ vpc' = IF ok THEN "jsonOk" ELSE "jsonError"
    /\ accepted' = IF ok THEN accepted \cup {vKey} ELSE accepted
    /\ UNCHANGED <<apiKey, apiKeyTemp, apiKeyLoading, showApiKeyModal, model,
                   modelTemp, possibleModels, showModelModal, vKey, vEnd,
                   draftEdited, chatVars, alertMsg>>

\* await response.json() of a response that is no success: the body is no
\* JSON, or an object without a data array
ValidateErrorBody ==
    /\ vpc = "jsonError"
    /\ ValidationFailed
    /\ UNCHANGED <<accepted, draftEdited, chatVars>>

\* await response.json() of a success response whose body is no JSON
ValidateBadBody ==
    /\ vpc = "jsonOk"
    /\ ValidationFailed
    /\ UNCHANGED <<accepted, draftEdited, chatVars>>

\* variant: the effect leaves the dialog's pending selection alone
ValidateOkKeepsPending(data) ==
    /\ vpc = "jsonOk"
    /\ LET models == FilterModels(data)
       IN  /\ possibleModels' = models
           /\ model' = DefaultModel(models)
    /\ apiKey' = PromotedKey
    /\ apiKeyTemp' = ""
    /\ showApiKeyModal' = FALSE
    /\ apiKeyLoading' = FALSE
    /\ vpc' = "none"
    /\ vKey' = ""
    /\ vEnd' = "promoted"
    /\ UNCHANGED <<modelTemp, showModelModal, accepted, draftEdited, chatVars, alertMsg>>

\* await response.json() of a success response, the rest of the try block,
\* and the effect that runs when possibleModels is set
ValidateOk(data) ==
    /\ vpc = "jsonOk"
    /\ LET models == FilterModels(data)
       IN  /\ possibleModels' = models
           /\ model' = DefaultModel(models)
           /\ modelTemp' = DefaultModel(models)
    /\ apiKey' = PromotedKey
    /\ apiKeyTemp' = ""
    /\ showApiKeyModal' = FALSE
    /\ apiKeyLoading' = FALSE
    /\ vpc' = "none"
    /\ vKey' = ""
    /\ vEnd' = "promoted"
    /\ UNCHANGED <<showModelModal, accepted, draftEdited, chatVars, alertMsg>>

\* onClick of the sidebar's API key button
OpenApiKeyModal ==
    /\ apiKey # ""
    /\ ~showApiKeyModal
    /\ showApiKeyModal' = TRUE
    /\ UNCHANGED <<apiKey, apiKeyTemp, apiKeyLoading, model, modelTemp,
                   possibleModels, showModelModal, vpc, vKey, vEnd, accepted, draftEdited,
                   chatVars, alertMsg>>

\* onClick of the key dialog's close button
CloseApiKeyModal ==
    /\ showApiKeyModal
    /\ apiKey # ""
    /\ apiKeyTemp' = ""
    /\ showApiKeyModal' = FALSE
    /\ UNCHANGED <<apiKey, apiKeyLoading, model, modelTemp, possibleModels,
                   showModelModal, vpc, vKey, vEnd, accepted, draftEdited, chatVars, alertMsg>>

\* onClick of the sidebar's model button
OpenModelModal ==
    /\ ~showModelModal
    /\ showModelModal' = TRUE
    /\ UNCHANGED <<apiKey, apiKeyTemp, apiKeyLoading, showApiKeyModal, model,
                   modelTemp, possibleModels, vpc, vKey, vEnd, accepted, draftEdited, chatVars,
                   alertMsg>>

\* onChange of the model dialog's Select
SelectModel(m) ==
    /\ showModelModal
    /\ \E i \in 1..Len(possibleModels) : possibleModels[i] = m
    /\ modelTemp # m
    /\ modelTemp' = m
    /\ UNCHANGED <<apiKey, apiKeyTemp, apiKeyLoading, showApiKeyModal, model,
                   possibleModels, showModelModal, vpc, vKey, vEnd, accepted, draftEdited,
                   chatVars, alertMsg>>

\* onClick of the model dialog's confirm button
ConfirmModel ==
    /\ showModelModal
    /\ modelTemp # ""
    /\ model' = modelTemp
    /\ showModelModal' = FALSE
    /\ UNCHANGED <<apiKey, apiKeyTemp, apiKeyLoading, showApiKeyModal, modelTemp,
                   possibleModels, vpc, vKey, vEnd, accepted, draftEdited, chatVars, alertMsg>>

\* onClick of the model dialog's close button
CloseModelModal ==
    /\ showModelModal
    /\ showModelModal' = FALSE
    /\ UNCHANGED <<apiKey, apiKeyTemp, apiKeyLoading, showApiKeyModal, model,
                   modelTemp, possibleModels, vpc, vKey, vEnd, accepted, draftEdited, chatVars,
                   alertMsg>>

(***************************************************************************)
(* Specifications.                                                         *)
(***************************************************************************)
InitChatState ==
    /\ inputText = ""
    /\ today = 0
    /\ messages = <<getSystemMessage(0)>>
    /\ isLoading = FALSE
    /\ pc = "none"
    /\ inputMessages = <<>>
    /\ responseMessage = Msg("assistant", "")
    /\ status = 0
    /\ error = NoError
    /\ rest = ""
    /\ request = NoRequest
    /\ nSends = 0
    /\ inflight = 0
    /\ preSend = <<>>
    /\ lastEnd = "none"
    /\ stream = <<>>
    /\ publications = <<>>
    /\ sendIgnored = FALSE
    /\ alertMsg = ""

\* the state after the first render and its effects
Init ==
    /\ apiKey = ""
    /\ apiKeyTemp = ""
    /\ apiKeyLoading = FALSE
    /\ showApiKeyModal = TRUE
    /\ model = ""
    /\ modelTemp = ""
    /\ possibleModels = <<>>
    /\ showModelModal = FALSE
    /\ vpc = "none"
    /\ vKey = ""
    /\ vEnd = "none"
    /\ accepted = {}
    /\ draftEdited = FALSE
    /\ InitChatState

\* the state once a key has been validated and a model of its list chosen
InitWithKey ==
    /\ apiKey = "sk-good"
    /\ apiKeyTemp = ""
    /\ apiKeyLoading = FALSE
    /\ showApiKeyModal = FALSE
    /\ possibleModels = <<"gpt-4", "gpt-3.5-turbo">>
    /\ model \in {possibleModels[i] : i \in 1..Len(possibleModels)}
    /\ modelTemp = model
    /\ showModelModal = FALSE
    /\ vpc = "none"
    /\ vKey = ""
    /\ vEnd = "promoted"
    /\ accepted = {"sk-good"}
    /\ draftEdited = FALSE
    /\ InitChatState

\* the bodies streamed when several sends are interleaved
ShortStreams == {<<>>, <<[kind |-> "delta", text |-> "Hi"]>>}

NextChat ==
    \/ SendMessage
    \/ FetchReject
    \/ \E st \in Statuses : RespondError(st)
    \/ \E body \in ErrorBodies : ErrorBody(body)
    \/ RespondNoBody
    \/ RespondOk(ShortStreams)
    \/ \E n \in 1..Len(rest) : ReadChunk(n)
    \/ ReadDone
    \/ ReadReject
    \/ \E t \in InputTexts : TypeInput(t)
    \/ Tick

\* one send, with every body and every chunking of it
NextStream ==
    \/ SendMessage /\ nSends = 0
    \/ RespondOk(Streams)
    \/ \E n \in 1..Len(rest) : ReadChunk(n)
    \/ ReadDone
    \/ ReadReject

NextCred ==
    \/ \E k \in Keys \cup {""} : EditApiKeyTemp(k)
    \/ ConfirmApiKey
    \/ ValidateReject
    \/ \E ok \in BOOLEAN : ValidateRespond(ok)
    \/ ValidateErrorBody
    \/ ValidateBadBody
    \/ \E data \in ModelLists : ValidateOk(data)
    \/ OpenApiKeyModal
    \/ CloseApiKeyModal
    \/ OpenModelModal
    \/ \E m \in ModelIds : SelectModel(m)
    \/ ConfirmModel
    \/ CloseModelModal

\* the whole component; SpecChat, SpecStream and SpecCred below are its
\* restrictions to the engine and to the dialogs, whose state is disjoint
Next == NextChat \/ NextCred

Spec == Init /\ [][Next]_vars

SpecChat == InitWithKey /\ [][NextChat]_vars

SpecStream == InitWithKey /\ [][NextStream]_vars

SpecCred == Init /\ [][NextCred]_vars

(***************************************************************************)
(* Properties.                                                             *)
(***************************************************************************)
LastMessage == messages[Len(messages)]

\* the text a streamed response carries: d1 + d2 + ... + dn
Expected == Concat(Deltas(stream))

\* C1: a sendMessage call made while a request is outstanding (isLoading)
\* issues no request and leaves the transcript alone, and at most one
\* completion request is in flight in every reachable state.
C1_SingleFlight ==
    /\ [](inflight <= 1)
    /\ [][/\ isLoading => nSends' = nSends /\ request' = request
          /\ (sendIgnored' /\ ~sendIgnored) =>
                 /\ isLoading
                 /\ messages' = messages
                 /\ inflight' = inflight
                 /\ pc' = pc]_vars

\* a send was called and ignored while the response was streaming
C1_Witness ==
    /\ sendIgnored
    /\ pc = "read"
    /\ inflight = 1
    /\ publications # <<>>

\* C2: after a response that is not a success, the transcript equals the
\* transcript held before the send and the engine is idle.
C2_RollbackExact ==
    lastEnd \in {"rejected", "jsonRejected"} =>
        /\ messages = preSend
        /\ ~isLoading
        /\ pc = "none"

\* C3: when a streamed response ends, the assistant message holds the
\* concatenation of the deltas the body carried, however it was chunked.
C3_DeltasPreserved ==
    lastEnd = "completed" =>
        /\ responseMessage.content = Expected
        /\ LastMessage = Msg("assistant", Expected)

\* C4: when a streamed response ends, the transcript was republished once
\* per non-empty delta of the body after the empty assistant message was
\* appended.
C4_OnePublicationPerDelta ==
    lastEnd = "completed" => Len(publications) = Len(NonEmpty(Deltas(stream)))

\* the delta of a piece that is the payload of a content record
RecordDelta(piece) ==
    LET t == JsonTrim(piece)
        hits == {rec \in Records : rec.kind = "delta" /\ t = Payload(rec)}
    IN  IF hits = {} THEN "" ELSE (CHOOSE rec \in hits : TRUE).text

RECURSIVE RecordDeltas(_)
RecordDeltas(pieces) ==
    IF pieces = <<>> THEN <<>>
    ELSE <<RecordDelta(Head(pieces))>> \o RecordDeltas(Tail(pieces))

\* the pieces of the chunk a read step consumed
ConsumedPieces == Split(SubSeq(rest, 1, Len(rest) - Len(rest')), Delimiter)

\* C5: in every read step the pieces that are no content record are skipped
\* (no error ends the loop, they change nothing) and every piece that is a
\* content record is applied, also when it follows a skipped piece.
C5_MalformedSkipped ==
    [][(pc = "read" /\ rest' # rest) =>
          \A applied \in {NonEmpty(RecordDeltas(ConsumedPieces))} :
              /\ pc' = "read"
              /\ lastEnd' = lastEnd
              /\ responseMessage'.content = responseMessage.content \o Concat(applied)
              /\ LastMessage' = Msg("assistant", responseMessage'.content)
              /\ Len(publications') = Len(publications) + Len(applied)
              /\ applied = <<>> => messages' = messages]_vars

\* a body whose sentinel is followed by a content record was read to its end
\* and the record after the sentinel was applied
C5_Witness ==
    /\ lastEnd = "completed"
    /\ Len(stream) = 2
    /\ stream[1].kind = "done"
    /\ stream[2] = [kind |-> "delta", text |-> "Hi"]
    /\ LastMessage = Msg("assistant", "Hi")

\* C9: once no sendMessage invocation is in progress the loading indicator
\* is cleared, however the invocation ended.
C9_LoadingCleared == pc = "none" => ~isLoading

\* C10: after the initial request was rejected by the transport, the
\* transcript holds the messages it held before the send and no user turn
\* for that send.
C10_TransportRollback ==
    lastEnd = "fetchRejected" =>
        SubSeq(messages, 2, Len(messages)) = SubSeq(preSend, 2, Len(preSend))

\* the characters of the model ids by UTF-16 code unit
CharOrder == "-.0123456789abcdefghijklmnopqrstuvwxyz"

\* a <= b comparing code units, the order of < on JavaScript strings
RECURSIVE LexLeq(_, _)
LexLeq(a, b) ==
    IF Len(a) = 0 THEN TRUE
    ELSE IF Len(b) = 0 THEN FALSE
    ELSE IF SubSeq(a, 1, 1) = SubSeq(b, 1, 1)
         THEN LexLeq(SubSeq(a, 2, Len(a)), SubSeq(b, 2, Len(b)))
         ELSE IndexOf(CharOrder, SubSeq(a, 1, 1)) < IndexOf(CharOrder, SubSeq(b, 1, 1))

Range(list) == {list[i] : i \in 1..Len(list)}

\* gpt-3.5-turbo if listed, else the lexicographically last entry, else ""
LexLastDefault(list) ==
    IF "gpt-3.5-turbo" \in Range(list) THEN "gpt-3.5-turbo"
    ELSE IF list = <<>> THEN ""
    ELSE CHOOSE m \in Range(list) : \A x \in Range(list) : LexLeq(x, m)

\* gpt-3.5-turbo if listed, else the entry the endpoint returned last, else ""
ReturnedLastDefault(list) ==
    IF "gpt-3.5-turbo" \in Range(list) THEN "gpt-3.5-turbo"
    ELSE IF list = <<>> THEN ""
    ELSE list[Len(list)]

\* a step in which a validation succeeds and the filtered list is set
ListSet == vpc = "jsonOk" /\ vEnd' = "promoted"

\* C6 as stated: whenever the filtered list is set, the selected model is
\* gpt-3.5-turbo if listed, else the lexicographically last entry, else "".
C6_LexLast == [][ListSet => model' = LexLastDefault(possibleModels')]_vars

\* C6 amended: whenever the filtered list is set, the selected model (and the
\* dialog's pending selection) is gpt-3.5-turbo if listed, else the last entry
\* in the order the endpoint returned them, else "".
C6_ReturnedLast ==
    [][ListSet => /\ model' = ReturnedLastDefault(possibleModels')
                  /\ modelTemp' = model'
                  /\ \A m \in Range(possibleModels') : Includes(m, "gpt-")]_vars

\* a list without gpt-3.5-turbo whose last entry is not its greatest was set
\* and its last entry is selected; an empty list left nothing selected
C6_Witness ==
    /\ vEnd = "promoted"
    /\ vpc = "none"
    /\ possibleModels = <<"gpt-4-32k", "gpt-4">>
    /\ model = "gpt-4"
    /\ modelTemp = "gpt-4"

\* a step in which a validation round trip fails: the fetch rejects, or the
\* body of a response that is no success has been read
ValidationFails ==
    /\ vpc \in {"fetch", "jsonError"}
    /\ vpc' = "none"

C11_OneSystemFirst ==
    /\ Len(messages) >= 1
    /\ messages[1].role = "system"
    /\ \A i \in 2..Len(messages) : messages[i].role \in {"user", "assistant"}

\* a second send, made after a streamed response was completed, was rejected
\* and rolled back: the transcript holds the first exchange after its system
\* message
C11_Witness ==
    /\ nSends = 2
    /\ lastEnd = "rejected"
    /\ Len(messages) = 3
    /\ messages[2].role = "user"
    /\ messages[3] = Msg("assistant", "Hi")

\* the messages of a transcript whose role is not system, in their order
NonSystem(msgs) == SelectSeq(msgs, LAMBDA m : m.role # "system")

\* a step in which sendMessage issues a request
Sends == nSends' = nSends + 1

\* C12: the request issued for transcript T and input text x carries a
\* system message generated for the current date, then every non-system
\* message of T in T's order, then one user message with content x (the
\* empty string included); its stream flag is true and its model is the
\* selected model; the transcript set at send time is this message list.
C12_RequestBuilt ==
    [][Sends =>
          \A expected \in {<<getSystemMessage(today)>> \o NonSystem(messages)
                               \o <<Msg("user", inputText)>>} :
              /\ request'.messages = expected
              /\ request'.stream = TRUE
              /\ request'.model = model
              /\ messages' = expected]_vars

\* after a completed exchange and a change of date, an empty text was sent
\* with the model that is not the default
C12_Witness ==
    /\ nSends = 2
    /\ pc = "fetch"
    /\ today = 1
    /\ model = "gpt-4"
    /\ preSend = <<getSystemMessage(0), Msg("user", "hello"), Msg("assistant", "Hi")>>
    /\ request = [model |-> "gpt-4", stream |-> TRUE, key |-> apiKey,
                  messages |-> <<getSystemMessage(1), Msg("user", "hello"),
                                 Msg("assistant", "Hi"), Msg("user", "")>>]
    /\ messages = request.messages

\* a step in which the failure branch, having read the error object of the
\* response, runs to its end
Classified == pc = "json" /\ lastEnd' = "rejected"

C14_ModelInList ==
    /\ model = "" \/ model \in Range(possibleModels)
    /\ modelTemp = "" \/ modelTemp \in Range(possibleModels)

\* two keys were validated, and after the list was last replaced an entry
\* other than the default was chosen in the dialog and confirmed
C14_Witness ==
    /\ accepted = {"sk-good", "sk-old"}
    /\ vEnd = "promoted"
    /\ ~showModelModal
    /\ possibleModels = <<"gpt-3.5-turbo", "gpt-4">>
    /\ model = "gpt-4"
    /\ modelTemp = "gpt-4"

IsPrefix(a, b) == Len(a) <= Len(b) /\ SubSeq(b, 1, Len(a)) = a

\* a response has begun to stream (and may have ended)
Streamed == pc = "read" \/ lastEnd \in {"completed", "readRejected"}

\* C15: once a response streams, the transcript is the list published at
\* send time followed by one assistant message, and the assistant contents
\* published since grow monotonically: each is a prefix of the next, and the
\* transcript holds the last of them.
C15_MonotoneGrowth ==
    Streamed =>
        /\ Len(messages) = Len(request.messages) + 1
        /\ SubSeq(messages, 1, Len(request.messages)) = request.messages
        /\ LastMessage.role = "assistant"
        /\ \A i \in 1..(Len(publications) - 1) :
               /\ IsPrefix(publications[i], publications[i + 1])
               /\ publications[i] # publications[i + 1]
        /\ LastMessage.content =
               IF publications = <<>> THEN "" ELSE publications[Len(publications)]

\* two deltas were published while the response was still being read
C15_Witness ==
    /\ pc = "read"
    /\ publications = <<"Hi", "Hi!">>
    /\ LastMessage = Msg("assistant", "Hi!")

\* a step in which a response with a body arrives for the request
Responded == pc = "fetch" /\ pc' \in {"read", "json"}

\* C16: a response with any 2xx status starts the streaming and appends an
\* empty assistant message to the transcript at once; only a response with
\* another status takes the failure path.
C16_AnySuccessStreams ==
    [][Responded =>
          IF status' \in 200..299
          THEN /\ pc' = "read"
               /\ messages' = Append(messages, Msg("assistant", ""))
          ELSE pc' = "json"]_vars

\* the deltas applied so far: what each publication added to the one before
AppliedDeltas ==
    [i \in 1..Len(publications) |->
        SubSeq(publications[i],
               (IF i = 1 THEN 0 ELSE Len(publications[i - 1])) + 1,
               Len(publications[i]))]

\* C17: after the read of a streamed body was rejected by the transport,
\* the transcript holds the system message, the messages held before the
\* send, the user message sent and one assistant message whose content is the
\* concatenation of the deltas applied until then (none included).
C17_PartialKept ==
    lastEnd = "readRejected" =>
        /\ messages = request.messages
                          \o <<Msg("assistant", Concat(AppliedDeltas))>>
        /\ request.messages[1].role = "system"
        /\ SubSeq(request.messages, 2, Len(request.messages) - 1)
               = SubSeq(preSend, 2, Len(preSend))
        /\ request.messages[Len(request.messages)].role = "user"
        /\ \A i \in 1..Len(AppliedDeltas) :
               AppliedDeltas[i] \in Range(NonEmpty(Deltas(stream)))

\* the read was rejected after two deltas had been applied and before the
\* body was read to its end
C17_Witness ==
    /\ lastEnd = "readRejected"
    /\ rest # ""
    /\ publications = <<"Hi", "Hi!">>
    /\ messages = <<getSystemMessage(0), Msg("user", ""), Msg("assistant", "Hi!")>>

\* C18: when a validation succeeds, the key made active is the key that was
\* sent with the validation request, also when the draft was edited while
\* the request was outstanding, and the draft is empty afterwards.
C18_PromotesSentKey ==
    [][ListSet => /\ apiKey' = vKey
                  /\ apiKey' \in accepted
                  /\ apiKeyTemp' = ""]_vars

\* the draft was changed to another key while the request for sk-good was
\* outstanding, and sk-good was promoted
C18_Witness ==
    /\ vEnd = "promoted"
    /\ draftEdited
    /\ apiKey = "sk-good"
    /\ accepted = {"sk-good"}
    /\ apiKeyTemp = ""

====
